---- MODULE Spec2Model ----
\* Text itemization and run reordering of drape/harfbuzz_shape.cpp:
\* ItemizeText / GetSingleTextLineRuns / ScriptInterval / ReorderRTL.
EXTENDS Integers, Sequences, FiniteSets, TLC

VARIABLES
  utf8,           \* ItemizeText argument, as the code points the UTF-8 text encodes
  debug,          \* TRUE in a build with DEBUG defined (ASSERT is checked)
  metrics,        \* the TextMetrics returned by ShapeText
  text,           \* runs.text: the UTF-16 buffer (sequence of code units)
  paraLevel,      \* paragraph level resolved by ubidi_setPara (-1: not analysed)
  levels,         \* embedding level of every UTF-16 unit, as held by the UBiDi object
  substrings,     \* runs.substrings
  pc,             \* position of the caller / of GetSingleTextLineRuns
  bidiRunStart, bidiRunEnd, bidiLevel,   \* locals of the outer loop
  scriptRunStart, scriptRunEnd, script,  \* locals of the inner loop
  itemized,       \* history: runs.substrings as returned by ItemizeText
  before,         \* history: runs.substrings on entry of the last ReorderRTL call
  calls,          \* history: number of ReorderRTL calls made on this TextRuns
  bidi,           \* thread_local UBiDi * const bidi of GetSingleTextLineRuns
  error,          \* UErrorCode error of the last GetSingleTextLineRuns call
  itemizations,   \* history: number of ItemizeText calls made on this thread
  handle,             \* class of the gui label handle under test ("none": no handle)
  m_isContentDirty,   \* MutableLabelHandle::m_isContentDirty
  m_content,          \* MutableLabelHandle::m_content
  m_glyphsReady,      \* m_glyphsReady of either handle class
  m_textureManager,   \* m_textureManager of either handle class
  glyphsReadyIn,      \* the texture managers whose AreGlyphsReady answers true
  mutation,           \* the mutation added last to the mutator (<<>>: none yet)
  lastCall,           \* history: the last call on the handle and its outcome
  labelHistory        \* history: counters and flags of the calls made so far

vars == <<utf8, debug, metrics, text, paraLevel, levels, substrings, pc,
          bidiRunStart, bidiRunEnd, bidiLevel, scriptRunStart, scriptRunEnd,
          script, itemized, before, calls, bidi, error, itemizations,
          handle, m_isContentDirty, m_content, m_glyphsReady, m_textureManager,
          glyphsReadyIn, mutation, lastCall, labelHistory>>

\* What one thread keeps from one ItemizeText call to the next.
threadVars == <<bidi, error, itemizations>>

labelVars == <<handle, m_isContentDirty, m_content, m_glyphsReady, m_textureManager,
               glyphsReadyIn, mutation, lastCall, labelHistory>>

\* No label handle exists.
NoLabelHandle ==
  /\ handle = "none"
  /\ m_isContentDirty = FALSE
  /\ m_content = <<>>
  /\ m_glyphsReady = FALSE
  /\ m_textureManager = "nullptr"
  /\ glyphsReadyIn = {}
  /\ mutation = <<>>
  /\ lastCall = "none"
  /\ labelHistory = <<>>

\* ---------------------------------------------------------------- bounds
MaxLen == 3      \* code points per input text
MaxRuns == 4     \* runs per TextRuns handed directly to ReorderRTL
MaxCalls == 2    \* ReorderRTL calls on one TextRuns
MaxItemizations == 2   \* ItemizeText calls on one thread

\* ------------------------------------------------------- ICU / HarfBuzz
kMaxScripts == 32

USCRIPT_INVALID_CODE == -1
USCRIPT_COMMON == 0
USCRIPT_INHERITED == 1
USCRIPT_ARABIC == 2
USCRIPT_HIRAGANA == 20
USCRIPT_KATAKANA == 22
USCRIPT_LATIN == 25
USCRIPT_UNKNOWN == 103

HB_SCRIPT_INVALID == "HB_SCRIPT_INVALID"
HB_SCRIPT_UNKNOWN == "Zzzz"
HB_DIRECTION_INVALID == "HB_DIRECTION_INVALID"
HB_DIRECTION_LTR == "HB_DIRECTION_LTR"
HB_DIRECTION_RTL == "HB_DIRECTION_RTL"

\* Code points of the modelled inputs:
\* U+0041 LATIN CAPITAL LETTER A, U+0301 COMBINING ACUTE ACCENT,
\* U+0627 ARABIC LETTER ALEF, U+30A2 KATAKANA LETTER A,
\* U+30FC KATAKANA-HIRAGANA PROLONGED SOUND MARK, U+1F600 GRINNING FACE.
CodePoints == {65, 769, 1575, 12450, 12540, 128512}

\* The embedding levels implicit bidi resolution assigns in a paragraph of
\* level p to text without digits and explicit embedding controls (as
\* CodePoints): p to text of the paragraph direction, p + 1 to the rest.
ImplicitLevels(p) == {p, p + 1}

\* ubidi_setPara resolves every paragraph of the text on its own. A paragraph
\* ends behind a line feed, and behind a carriage return that no line feed
\* follows.
EndsParagraph(cps, i) ==
  cps[i] = 10 \/ (cps[i] = 13 /\ ~(i < Len(cps) /\ cps[i + 1] = 10))

\* The paragraph level of every code point: one level per paragraph.
ParagraphLevels(cps) ==
  {pl \in [1..Len(cps) -> {0, 1}] :
     \A i \in 1..(Len(cps) - 1) : ~EndsParagraph(cps, i) => pl[i + 1] = pl[i]}

\* The embedding levels of the code points, given their paragraph levels: a
\* line feed or carriage return has the level of its paragraph.
LevelsIn(cps, pl) ==
  {lv \in [1..Len(cps) -> {0, 1, 2}] :
     \A i \in 1..Len(cps) :
       /\ lv[i] \in ImplicitLevels(pl[i])
       /\ cps[i] \in {10, 13} => lv[i] = pl[i]}

\* The embedding levels of default-LTR paragraphs with digits in RTL text.
NestedLevels(p) == {l \in {0, 1, 2} : l >= p}

\* Script_Extensions of a code point, in ICU's order: of the code points of
\* CodePoints, of NUL, LF and CR, and of a surrogate code unit read on its own.
ScriptExtensionsProperty(codepoint) ==
  CASE codepoint = 65 -> <<USCRIPT_LATIN>>
    [] codepoint = 769 -> <<USCRIPT_INHERITED>>
    [] codepoint = 1575 -> <<USCRIPT_ARABIC>>
    [] codepoint = 12450 -> <<USCRIPT_KATAKANA>>
    [] codepoint = 12540 -> <<USCRIPT_HIRAGANA, USCRIPT_KATAKANA>>
    [] codepoint = 128512 -> <<USCRIPT_COMMON>>
    [] codepoint \in {0, 10, 13} -> <<USCRIPT_COMMON>>
    [] 55296 <= codepoint /\ codepoint <= 57343 -> <<USCRIPT_UNKNOWN>>

\* uscript_getShortName
uscript_getShortName(s) ==
  CASE s = USCRIPT_COMMON -> "Zyyy"
    [] s = USCRIPT_INHERITED -> "Zinh"
    [] s = USCRIPT_ARABIC -> "Arab"
    [] s = USCRIPT_HIRAGANA -> "Hira"
    [] s = USCRIPT_KATAKANA -> "Kana"
    [] s = USCRIPT_LATIN -> "Latn"
    [] OTHER -> "Zzzz"

\* ------------------------------------------------------------- helpers
Reverse(s) == [i \in 1..Len(s) |-> s[Len(s) + 1 - i]]

\* Mutant of ReverseRange: elements are copied from the mirrored position
\* instead of being swapped, so the second half keeps its own values.
ReverseRange_Overwrite(s, lo, hi) ==
  [i \in 1..Len(s) |-> IF lo <= i /\ i <= hi /\ 2 * i < lo + hi THEN s[lo + hi - i] ELSE s[i]]

\* Mutant of ReverseRange: the range is rotated by one position instead of
\* being reversed.
ReverseRange_Rotate(s, lo, hi) ==
  [i \in 1..Len(s) |-> IF lo <= i /\ i < hi THEN s[i + 1]
                        ELSE IF lo <= i /\ i = hi THEN s[lo] ELSE s[i]]

\* std::reverse(first, last) on positions lo..hi (1-based, inclusive)
ReverseRange(s, lo, hi) ==
  [i \in 1..Len(s) |-> IF lo <= i /\ i <= hi THEN s[lo + hi - i] ELSE s[i]]

SeqsUpTo(S, n) == UNION {[1..k -> S] : k \in 1..n}

TextRun(start, length, scr, direction) ==
  [m_start |-> start, m_length |-> length, m_script |-> scr, m_direction |-> direction]

\* ----------------------------------------------------- strings::ToUtf16
\* UTF-16 code units of one code point (a surrogate pair above U+FFFF).
Utf16Units(cp) ==
  IF cp < 65536 THEN <<cp>>
  ELSE <<55296 + ((cp - 65536) \div 1024), 56320 + ((cp - 65536) % 1024)>>

RECURSIVE ToUtf16(_)
ToUtf16(cps) ==
  IF cps = <<>> THEN <<>> ELSE Utf16Units(Head(cps)) \o ToUtf16(Tail(cps))

\* ------------------------------------------------------------ U16_NEXT
U16_IS_LEAD(c) == 55296 <= c /\ c <= 56319
U16_IS_TRAIL(c) == 56320 <= c /\ c <= 57343
U16_GET_SUPPLEMENTARY(lead, trail) == (lead - 55296) * 1024 + (trail - 56320) + 65536

\* U16_NEXT(s, i, length, c): reads the code point at 0-based offset i of s and
\* post-increments i; an unpaired surrogate is returned as it is.
U16_NEXT(s, i, length) ==
  LET c == s[i + 1] IN
  IF U16_IS_LEAD(c) /\ i + 1 /= length /\ U16_IS_TRAIL(s[i + 2])
    THEN [c |-> U16_GET_SUPPLEMENTARY(c, s[i + 2]), i |-> i + 2]
    ELSE [c |-> c, i |-> i + 1]

\* --------------------------------------------------- UTF16CharIterator
ReadChar(it) ==
  LET r == U16_NEXT(it.str_, it.next_pos_, Len(it.str_)) IN
  [it EXCEPT !.next_pos_ = r.i, !.char_ = r.c]

\* Mutant of the constructor: the first code point is not read.
UTF16CharIterator_NoInitialRead(str) ==
  [str_ |-> str, array_pos_ |-> 0, next_pos_ |-> 0, char_ |-> 0]

UTF16CharIterator(str) ==
  LET it == [str_ |-> str, array_pos_ |-> 0, next_pos_ |-> 0, char_ |-> 0] IN
  IF it.array_pos_ < Len(str) THEN ReadChar(it) ELSE it

\* array_pos(), get() and end() of the iterator.
array_pos(it) == it.array_pos_
get(it) == it.char_
end(it) == it.array_pos_ = Len(it.str_)

\* Mutant of Advance(): stepping onto the end of the string clears the
\* current character.
Advance_ClearsCharAtEnd(it) ==
  IF it.array_pos_ >= Len(it.str_) THEN <<FALSE, it>>
  ELSE LET moved == [it EXCEPT !.array_pos_ = it.next_pos_] IN
       <<TRUE, IF moved.next_pos_ < Len(moved.str_) THEN ReadChar(moved)
               ELSE [moved EXCEPT !.char_ = 0]>>

\* Advance(): <<returned value, iterator afterwards>>
Advance(it) ==
  IF it.array_pos_ >= Len(it.str_) THEN <<FALSE, it>>
  ELSE LET moved == [it EXCEPT !.array_pos_ = it.next_pos_] IN
       <<TRUE, IF moved.next_pos_ < Len(moved.str_) THEN ReadChar(moved) ELSE moved>>

\* ------------------------------------------- script extension resolver
\* uscript_getScriptExtensions(c, scripts, capacity, &error): writes the
\* script extensions of c as far as the capacity allows; when the set exceeds
\* the capacity the first capacity entries have been written and the call
\* fails with U_BUFFER_OVERFLOW_ERROR.
uscript_getScriptExtensions(codepoint, capacity) ==
  LET scx == ScriptExtensionsProperty(codepoint) IN
  IF Len(scx) > capacity
    THEN [failure |-> TRUE, written |-> SubSeq(scx, 1, capacity)]
    ELSE [failure |-> FALSE, written |-> scx]

\* UScriptCode scripts[kMaxScripts] = { USCRIPT_INVALID_CODE }: the first
\* element is set, the others are value-initialised to 0.
InitialScripts == [i \in 1..kMaxScripts |-> IF i = 1 THEN USCRIPT_INVALID_CODE ELSE 0]

\* Writes the first elements of an array, leaving the others.
WriteFront(arr, vals) ==
  [i \in 1..Len(arr) |-> IF i <= Len(vals) THEN vals[i] ELSE arr[i]]

\* GetScriptExtensions(codepoint, scripts): [count, scripts afterwards]
GetScriptExtensions(codepoint, scripts) ==
  LET r == uscript_getScriptExtensions(codepoint, kMaxScripts) IN
  IF r.failure THEN [count |-> 0, scripts |-> WriteFront(scripts, r.written)]
  ELSE [count |-> Len(r.written), scripts |-> WriteFront(scripts, r.written)]

\* Mutant of ScriptSetIntersect: no early return for {Inherited}.
ScriptSetIntersect_NoInheritedSkip(codepoint, result, resultSize) ==
  LET g == GetScriptExtensions(codepoint, InitialScripts)
      contains(code) == \E i \in 1..g.count : g.scripts[i] = code
      kept == SelectSeq(SubSeq(result, 1, resultSize), contains)
  IN [result |-> WriteFront(result, kept), resultSize |-> Len(kept)]

\* Mutant of ScriptSetIntersect: the surviving scripts are counted but not
\* moved to the front of the array.
ScriptSetIntersect_NoCompaction(codepoint, result, resultSize) ==
  LET g == GetScriptExtensions(codepoint, InitialScripts)
      contains(code) == \E i \in 1..g.count : g.scripts[i] = code
      kept == SelectSeq(SubSeq(result, 1, resultSize), contains)
  IN IF g.count = 1 /\ g.scripts[1] = USCRIPT_INHERITED
       THEN [result |-> result, resultSize |-> resultSize]
       ELSE [result |-> result, resultSize |-> Len(kept)]

\* Mutant of ScriptSetIntersect: an active set that is {Inherited} takes over
\* the extension set of the code point.
ScriptSetIntersect_InheritedAdopts(codepoint, result, resultSize) ==
  LET g == GetScriptExtensions(codepoint, InitialScripts)
      contains(code) == \E i \in 1..g.count : g.scripts[i] = code
      kept == SelectSeq(SubSeq(result, 1, resultSize), contains)
  IN IF g.count = 1 /\ g.scripts[1] = USCRIPT_INHERITED
       THEN [result |-> result, resultSize |-> resultSize]
     ELSE IF resultSize = 1 /\ result[1] = USCRIPT_INHERITED
       THEN [result |-> WriteFront(result, SubSeq(g.scripts, 1, g.count)),
             resultSize |-> g.count]
     ELSE [result |-> WriteFront(result, kept), resultSize |-> Len(kept)]

\* ScriptSetIntersect(codepoint, result, resultSize): [result, resultSize] afterwards
ScriptSetIntersect(codepoint, result, resultSize) ==
  LET g == GetScriptExtensions(codepoint, InitialScripts)
      count == g.count
      scripts == g.scripts
      contains(code) == \E i \in 1..count : scripts[i] = code
      kept == SelectSeq(SubSeq(result, 1, resultSize), contains)
  IN IF count = 1 /\ scripts[1] = USCRIPT_INHERITED
       THEN [result |-> result, resultSize |-> resultSize]
       ELSE [result |-> WriteFront(result, kept), resultSize |-> Len(kept)]

\* ------------------------------------------------ script interval scanner
\* The while loop of ScriptInterval, as the sequence of its iterations: the
\* code point and position read after Advance(), and the active script set
\* (array and size) before and after ScriptSetIntersect. The loop is left when
\* Advance() returns false or after the iteration that empties the set.
RECURSIVE ScriptIntervalLoop(_, _, _)
ScriptIntervalLoop(iterator, scripts, scriptsSize) ==
  LET a == Advance(iterator) IN
  IF ~a[1] THEN <<>>
  ELSE LET r == ScriptSetIntersect(a[2].char_, scripts, scriptsSize)
           step == [char_ |-> a[2].char_, array_pos_ |-> a[2].array_pos_,
                    scripts |-> scripts, scriptsSize |-> scriptsSize,
                    result |-> r.result, resultSize |-> r.resultSize]
       IN IF r.resultSize = 0 THEN <<step>>
          ELSE <<step>> \o ScriptIntervalLoop(a[2], r.result, r.resultSize)

\* The iterations of the loop of ScriptInterval(text, start, length, &script).
ScriptIntervalSteps(txt, start, length) ==
  LET iterator == UTF16CharIterator(SubSeq(txt, start + 1, start + length))
      g == GetScriptExtensions(iterator.char_, InitialScripts)
  IN ScriptIntervalLoop(iterator, g.scripts, g.count)

\* Mutant of ScriptInterval: the iterator views the text up to its end
\* instead of |length| units.
ScriptInterval_Unbounded(txt, start, length) ==
  LET iterator == UTF16CharIterator(SubSeq(txt, start + 1, Len(txt)))
      g == GetScriptExtensions(iterator.char_, InitialScripts)
      steps == ScriptIntervalLoop(iterator, g.scripts, g.count)
      last == steps[Len(steps)]
  IN IF steps = <<>> THEN [length |-> Len(txt) - start, script |-> g.scripts[1]]
     ELSE [length |-> IF last.resultSize = 0 THEN last.array_pos_ ELSE Len(txt) - start,
           script |-> last.result[1]]

\* ScriptInterval(text, start, length, &script): [length returned, script written]
ScriptInterval(txt, start, length) ==
  LET iterator == UTF16CharIterator(SubSeq(txt, start + 1, start + length))
      g == GetScriptExtensions(iterator.char_, InitialScripts)
      steps == ScriptIntervalLoop(iterator, g.scripts, g.count)
      last == steps[Len(steps)]
  IN IF steps = <<>> THEN [length |-> length, script |-> g.scripts[1]]
     ELSE [length |-> IF last.resultSize = 0 THEN last.array_pos_ ELSE length,
           script |-> last.result[1]]

ICUScriptToHarfbuzzScript(s) ==
  IF s = USCRIPT_INVALID_CODE THEN HB_SCRIPT_INVALID ELSE uscript_getShortName(s)

\* ---------------------------------------------------------------- UBiDi
U_ZERO_ERROR == "U_ZERO_ERROR"
U_ILLEGAL_ARGUMENT_ERROR == "U_ILLEGAL_ARGUMENT_ERROR"
U_MEMORY_ALLOCATION_ERROR == "U_MEMORY_ALLOCATION_ERROR"

\* ubidi_open(): a new UBiDi object, or nullptr when its memory cannot be had.
ubidi_open == {"nullptr", "UBiDi"}

\* thread_local UBiDi * const bidi = ubidi_open(): the first call on the thread
\* that reaches the declaration initialises the handle, and it is constant
\* from then on. Given the handle before the call, the values it can have
\* after the declaration.
ThreadLocalBidi(handleBefore) ==
  IF handleBefore = "uninitialized" THEN ubidi_open ELSE {handleBefore}

\* The error codes with which ubidi_setPara can fail on the given handle for
\* the given text: a null handle is an illegal argument, and on an object the
\* memory for the properties and levels of the text may not be had; the empty
\* text needs none.
SetParaErrors(handleInCall, txt) ==
  IF handleInCall = "nullptr" THEN {U_ILLEGAL_ARGUMENT_ERROR}
  ELSE IF txt = <<>> THEN {}
  ELSE {U_MEMORY_ALLOCATION_ERROR}

\* The first ubidi_getLogicalRun on an analysed text computes the runs of the
\* text. A text of one level has a single run and needs no memory; for a text
\* of several levels the array of runs is allocated, and when that memory
\* cannot be had the call reads through a null pointer.
GetLogicalRunAllocates(lv, logicalPosition) ==
  logicalPosition = 0 /\ \E i, j \in DOMAIN lv : lv[i] /= lv[j]

\* ubidi_getLogicalRun(bidi, logicalPosition, &logicalLimit, &level)
ubidi_getLogicalRun(lv, logicalPosition) ==
  LET level == lv[logicalPosition + 1]
      differs == {k \in (logicalPosition + 1)..(Len(lv) - 1) : lv[k + 1] /= level}
      limit == IF differs = {} THEN Len(lv)
               ELSE CHOOSE k \in differs : \A j \in differs : k <= j
  IN [logicalLimit |-> limit, level |-> level]

\* The level of every UTF-16 unit, given one level per code point: both
\* units of a surrogate pair carry the level of their code point.
RECURSIVE UnitLevels(_, _)
UnitLevels(cps, lv) ==
  IF cps = <<>> THEN <<>>
  ELSE [i \in 1..Len(Utf16Units(Head(cps))) |-> Head(lv)] \o UnitLevels(Tail(cps), Tail(lv))

\* ------------------------------------------------------------ ReorderRTL
\* Mutant of the loop of ReorderRTL: the inner while that extends a span is
\* missing, so every differing run is reversed on its own.
ReorderLoop_NoInnerLoop(runs, i, lineDirection) == runs

\* The while loop of ReorderRTL, the iterator |it| being at 1-based index i.
RECURSIVE ReorderLoop(_, _, _)
ReorderLoop(runs, i, lineDirection) ==
  IF i > Len(runs) THEN runs
  ELSE IF runs[i].m_direction = lineDirection THEN ReorderLoop(runs, i + 1, lineDirection)
  ELSE LET same == {k \in (i + 1)..Len(runs) : runs[k].m_direction = lineDirection}
           stop == IF same = {} THEN Len(runs) + 1
                   ELSE CHOOSE k \in same : \A j \in same : k <= j
       IN ReorderLoop(ReverseRange(runs, i, stop - 1), stop, lineDirection)

\* Mutant of ReorderRTL: the line direction is read from the last run.
ReorderRTL_LastRunDirection(runs) ==
  LET lineDirection == runs[Len(runs)].m_direction
      spans == ReorderLoop(runs, 1, lineDirection)
  IN IF lineDirection /= HB_DIRECTION_LTR THEN Reverse(spans) ELSE spans

\* Mutant of ReorderRTL: the final reversal of a right-to-left line is missing.
ReorderRTL_NoLineReverse(runs) == ReorderLoop(runs, 1, runs[1].m_direction)

\* Mutant of ReorderRTL: the final reversal is made for every line direction.
ReorderRTL_AlwaysReverse(runs) == Reverse(ReorderLoop(runs, 1, runs[1].m_direction))

ReorderRTL(runs) ==
  LET lineDirection == runs[1].m_direction
      spans == ReorderLoop(runs, 1, lineDirection)
  IN IF lineDirection /= HB_DIRECTION_LTR THEN Reverse(spans) ELSE spans

\* ------------------------------------------------------------ the program
\* Mutant of DirectionOfLevel: every level above 0 is taken as right-to-left.
DirectionOfLevel_NonZeroIsRTL(level) ==
  IF level /= 0 THEN HB_DIRECTION_RTL ELSE HB_DIRECTION_LTR

DirectionOfLevel(level) == IF level % 2 = 1 THEN HB_DIRECTION_RTL ELSE HB_DIRECTION_LTR

\* The preconditions ItemizeText asserts on its argument.
ValidInput(u) == u /= <<>> /\ \A i \in 1..Len(u) : u[i] \notin {10, 13}

\* hb_buffer_add_utf16(buf, text, text_length, item_offset, item_length): the
\* code points of the slice, a surrogate pair being one code point and an
\* unpaired surrogate the replacement character U+FFFD.
RECURSIVE hb_buffer_add_utf16(_, _, _)
hb_buffer_add_utf16(txt, item_offset, item_length) ==
  IF item_length <= 0 THEN <<>>
  ELSE LET r == U16_NEXT(txt, item_offset, item_offset + item_length)
           c == IF U16_IS_LEAD(r.c) \/ U16_IS_TRAIL(r.c) THEN 65533 ELSE r.c
       IN <<c>> \o hb_buffer_add_utf16(txt, r.i, item_length - (r.i - item_offset))

\* hb_shape on the buffer of one run, then hb_buffer_get_glyph_infos: which
\* glyphs come back, how many, and their offsets and advances are decided by
\* the font and the shaper (a letter and a mark may become one glyph, a mark
\* has its advance zeroed, a letter may take a presentation form). What holds
\* for every font is that a buffer holding code points gives at least one
\* glyph and an empty buffer gives none: the least glyph_count of the run.
MinGlyphCount(txt, run) ==
  IF hb_buffer_add_utf16(txt, run.m_start, run.m_length) = <<>> THEN 0 ELSE 1

\* TextMetrics{}: the value-initialised result structure.
EmptyTextMetrics == [m_width |-> 0, m_glyphs |-> <<>>]

\* State before the caller shapes and itemizes one of the given texts in one
\* of the given builds.
StartWith(texts, builds) ==
  /\ utf8 \in texts
  /\ NoLabelHandle
  /\ debug \in builds
  /\ metrics = EmptyTextMetrics
  /\ text = <<>>
  /\ paraLevel = -1
  /\ levels = <<>>
  /\ substrings = <<>>
  /\ pc = "shape"
  /\ bidiRunStart = 0 /\ bidiRunEnd = 0 /\ bidiLevel = 0
  /\ scriptRunStart = 0 /\ scriptRunEnd = 0
  /\ script = USCRIPT_INVALID_CODE
  /\ itemized = <<>>
  /\ before = <<>>
  /\ calls = 0
  /\ bidi = "uninitialized"
  /\ error = U_ZERO_ERROR
  /\ itemizations = 0

\* Valid texts: on them the assertions of ItemizeText pass, so that the debug
\* and the release build take the same steps; the release build is explored.
Init == StartWith(SeqsUpTo(CodePoints, MaxLen), {FALSE})

\* ShapeText(utf8, fontPixelHeight, lang): returns TextMetrics{}.
ShapeTextCall ==
  /\ pc = "shape"
  /\ metrics' = EmptyTextMetrics
  /\ pc' = "start"
  /\ UNCHANGED labelVars
  /\ UNCHANGED threadVars
  /\ UNCHANGED <<utf8, debug, text, paraLevel, levels, substrings,
                 bidiRunStart, bidiRunEnd, bidiLevel, scriptRunStart, scriptRunEnd,
                 script, itemized, before, calls>>

\* The ASSERTs at the head of ItemizeText fire: only a debug build checks them.
ItemizeTextAsserts ==
  /\ pc = "start"
  /\ debug /\ ~ValidInput(utf8)
  /\ pc' = "aborted"
  /\ UNCHANGED labelVars
  /\ UNCHANGED threadVars
  /\ UNCHANGED <<utf8, debug, metrics, text, paraLevel, levels, substrings,
                 bidiRunStart, bidiRunEnd, bidiLevel, scriptRunStart, scriptRunEnd,
                 script, itemized, before, calls>>

\* ItemizeText up to the failure branch of GetSingleTextLineRuns:
\* ubidi_setPara reports an error, for a null handle or for want of memory.
\* ubidi_setPara drops the analysis of the text before at its start, so the
\* UBiDi object, if there is one, holds no levels afterwards.
SetParaFails ==
  /\ pc = "start"
  /\ ~(debug /\ ~ValidInput(utf8))
  /\ bidi' \in ThreadLocalBidi(bidi)
  /\ error' \in SetParaErrors(bidi', utf8)
  /\ paraLevel' = -1
  /\ levels' = <<>>
  /\ itemizations' = itemizations + 1
  /\ text' = ToUtf16(utf8)
  /\ substrings' = Append(substrings, TextRun(0, 0, HB_SCRIPT_UNKNOWN, HB_DIRECTION_INVALID))
  /\ itemized' = substrings'
  /\ pc' = "itemized"
  /\ UNCHANGED labelVars
  /\ UNCHANGED <<utf8, debug, metrics, bidiRunStart, bidiRunEnd, bidiLevel,
                 scriptRunStart, scriptRunEnd, script, before, calls>>

\* ItemizeText up to the head of the outer loop: the handle is an object,
\* ubidi_setPara succeeds and the
\* UBiDi object holds the level of the first paragraph (what ubidi_getParaLevel
\* returns; 0 for the empty text under UBIDI_DEFAULT_LTR) and one level per
\* UTF-16 unit.
SetParaSucceeds ==
  /\ pc = "start"
  /\ ~(debug /\ ~ValidInput(utf8))
  /\ "UBiDi" \in ThreadLocalBidi(bidi)
  /\ bidi' = "UBiDi"
  /\ error' = U_ZERO_ERROR
  /\ itemizations' = itemizations + 1
  /\ \E pl \in ParagraphLevels(utf8) :
       \E lv \in LevelsIn(utf8, pl) :
         /\ paraLevel' = IF utf8 = <<>> THEN 0 ELSE pl[1]
         /\ levels' = UnitLevels(utf8, lv)
  /\ text' = ToUtf16(utf8)
  /\ bidiRunStart' = 0
  /\ itemized' = IF 0 < Len(text') THEN itemized ELSE substrings
  /\ pc' = IF 0 < Len(text') THEN "outer" ELSE "itemized"
  /\ UNCHANGED labelVars
  /\ UNCHANGED <<utf8, debug, metrics, substrings, bidiRunEnd, bidiLevel,
                 scriptRunStart, scriptRunEnd, script, before, calls>>

\* Outer loop body up to the head of the inner loop (ubidi_getLogicalRun).
GetLogicalRun ==
  /\ pc = "outer"
  /\ bidiRunStart < Len(text)
  /\ LET r == ubidi_getLogicalRun(levels, bidiRunStart) IN
       /\ bidiRunEnd' = r.logicalLimit
       /\ bidiLevel' = r.level
  /\ scriptRunStart' = bidiRunStart
  /\ pc' = "inner"
  /\ UNCHANGED labelVars
  /\ UNCHANGED threadVars
  /\ UNCHANGED <<utf8, debug, metrics, text, paraLevel, levels, substrings, bidiRunStart,
                 scriptRunEnd, script, itemized, before, calls>>

\* Outer loop body, first iteration: ubidi_getLogicalRun has to allocate the
\* runs of the text and the memory cannot be had. The call faults, no run is
\* emitted and ItemizeText does not return.
GetLogicalRunFaults ==
  /\ pc = "outer"
  /\ bidiRunStart < Len(text)
  /\ GetLogicalRunAllocates(levels, bidiRunStart)
  /\ pc' = "crashed"
  /\ UNCHANGED labelVars
  /\ UNCHANGED threadVars
  /\ UNCHANGED <<utf8, debug, metrics, text, paraLevel, levels, substrings,
                 bidiRunStart, bidiRunEnd, bidiLevel, scriptRunStart, scriptRunEnd,
                 script, itemized, before, calls>>

\* Inner loop body: ScriptInterval and the emission of the run.
EmitRun ==
  /\ pc = "inner"
  /\ scriptRunStart < bidiRunEnd
  /\ \E r \in {ScriptInterval(text, scriptRunStart, bidiRunEnd - scriptRunStart)} :
       /\ script' = r.script
       /\ scriptRunEnd' = r.length + scriptRunStart
       /\ substrings' = Append(substrings,
            TextRun(scriptRunStart, scriptRunEnd' - scriptRunStart,
                    ICUScriptToHarfbuzzScript(r.script), DirectionOfLevel(bidiLevel)))
  /\ pc' = "emitted"
  /\ UNCHANGED labelVars
  /\ UNCHANGED threadVars
  /\ UNCHANGED <<utf8, debug, metrics, text, paraLevel, levels, bidiRunStart, bidiRunEnd,
                 bidiLevel, scriptRunStart, itemized, before, calls>>

\* "Move to the next script sequence", and when the inner loop is left "move to
\* the next direction sequence"; the function returns when the outer loop is left.
MoveToNext ==
  /\ pc = "emitted"
  /\ scriptRunStart' = scriptRunEnd
  /\ IF scriptRunStart' < bidiRunEnd
       THEN /\ pc' = "inner"
            /\ UNCHANGED <<bidiRunStart, itemized>>
       ELSE /\ bidiRunStart' = bidiRunEnd
            /\ pc' = IF bidiRunStart' < Len(text) THEN "outer" ELSE "itemized"
            /\ itemized' = IF bidiRunStart' < Len(text) THEN itemized ELSE substrings
  /\ UNCHANGED labelVars
  /\ UNCHANGED threadVars
  /\ UNCHANGED <<utf8, debug, metrics, text, paraLevel, levels, substrings, bidiRunEnd,
                 bidiLevel, scriptRunEnd, script, before, calls>>

\* A call of ReorderRTL(runs) on the itemized TextRuns.
ReorderRTLCall ==
  /\ pc \in {"itemized", "reordered"}
  /\ calls < MaxCalls
  /\ substrings /= <<>>
  /\ before' = substrings
  /\ substrings' = ReorderRTL(substrings)
  /\ calls' = calls + 1
  /\ pc' = "reordered"
  /\ UNCHANGED labelVars
  /\ UNCHANGED threadVars
  /\ UNCHANGED <<utf8, debug, metrics, text, paraLevel, levels, bidiRunStart, bidiRunEnd,
                 bidiLevel, scriptRunStart, scriptRunEnd, script, itemized>>

Next ==
  \/ ShapeTextCall
  \/ SetParaFails
  \/ SetParaSucceeds
  \/ GetLogicalRun
  \/ GetLogicalRunFaults
  \/ EmitRun
  \/ MoveToNext
  \/ (calls = 0 /\ ReorderRTLCall)

Spec == Init /\ [][Next]_vars

\* ReorderRTL as a function of its argument: a TextRuns of single-unit runs,
\* one per embedding level, as a caller may hand it over, or the TextRuns of
\* the bidi-failure path.
InitReorder ==
  /\ \/ \E n \in 1..MaxRuns : \E p \in {0, 1} :
          \E lv \in [1..n -> NestedLevels(p)] :
            /\ utf8 = [i \in 1..n |-> IF lv[i] % 2 = 1 THEN 1575 ELSE 65]
            /\ paraLevel = p
            /\ levels = lv
     \/ /\ utf8 = <<65>>
        /\ paraLevel = -1
        /\ levels = <<>>
  /\ NoLabelHandle
  /\ debug = FALSE
  /\ metrics = EmptyTextMetrics
  /\ text = ToUtf16(utf8)
  /\ substrings =
       IF paraLevel = -1
         THEN <<TextRun(0, 0, HB_SCRIPT_UNKNOWN, HB_DIRECTION_INVALID)>>
         ELSE [i \in 1..Len(levels) |->
                TextRun(i - 1, 1, ICUScriptToHarfbuzzScript(
                          IF levels[i] % 2 = 1 THEN USCRIPT_ARABIC ELSE USCRIPT_LATIN),
                        DirectionOfLevel(levels[i]))]
  /\ pc = "itemized"
  /\ bidiRunStart = Len(levels) /\ bidiRunEnd = Len(levels)
  /\ bidiLevel = IF paraLevel = -1 THEN 0 ELSE levels[Len(levels)]
  /\ scriptRunStart = Len(levels) /\ scriptRunEnd = Len(levels)
  /\ script = IF paraLevel = -1 THEN USCRIPT_INVALID_CODE
              ELSE IF levels[Len(levels)] % 2 = 1 THEN USCRIPT_ARABIC ELSE USCRIPT_LATIN
  /\ itemized = substrings
  /\ before = <<>>
  /\ calls = 0
  /\ bidi = IF paraLevel = -1 THEN "nullptr" ELSE "UBiDi"
  /\ error = IF paraLevel = -1 THEN U_ILLEGAL_ARGUMENT_ERROR ELSE U_ZERO_ERROR
  /\ itemizations = 1

NextReorder == ReorderRTLCall

SpecReorder == InitReorder /\ [][NextReorder]_vars

\* ItemizeText on the texts its assertions exclude: the empty text and texts
\* with a carriage return or a line feed, in a debug and in a release build.
InvalidTexts ==
  {<<>>} \cup {u \in SeqsUpTo({65, 1575, 10, 13}, MaxLen) : ~ValidInput(u)}

InitInvalid == StartWith(InvalidTexts, BOOLEAN)

\* ReorderRTL(runs) on a TextRuns without runs: runs.substrings.begin() is the
\* end iterator and reading it->m_direction is undefined. The read faults, or
\* it yields some value, after which the loop is not entered and reversing the
\* empty sequence changes nothing.
ReorderRTLOnEmpty ==
  /\ pc = "itemized"
  /\ calls = 0
  /\ substrings = <<>>
  /\ before' = substrings
  /\ calls' = calls + 1
  /\ pc' \in {"crashed", "reordered"}
  /\ UNCHANGED labelVars
  /\ UNCHANGED threadVars
  /\ UNCHANGED <<utf8, debug, metrics, text, paraLevel, levels, substrings,
                 bidiRunStart, bidiRunEnd, bidiLevel, scriptRunStart, scriptRunEnd,
                 script, itemized>>

NextInvalid ==
  \/ Next
  \/ ItemizeTextAsserts
  \/ ReorderRTLOnEmpty

SpecInvalid == InitInvalid /\ [][NextInvalid]_vars

\* Several texts itemized one after the other on one thread: the texts the
\* caller passes, all of them valid.
ThreadTexts == SeqsUpTo({65, 769, 1575}, MaxLen)

InitThread == StartWith(ThreadTexts, {FALSE})

\* The caller, on the same thread, calls ItemizeText for another text after a
\* call has returned: a new TextRuns is filled and the locals are new, while
\* the thread_local handle and the UBiDi object behind it are the ones the
\* call before left.
ItemizeTextAgain ==
  /\ pc \in {"itemized", "reordered"}
  /\ itemizations < MaxItemizations
  /\ utf8' \in ThreadTexts
  /\ text' = <<>>
  /\ substrings' = <<>>
  /\ pc' = "start"
  /\ bidiRunStart' = 0 /\ bidiRunEnd' = 0 /\ bidiLevel' = 0
  /\ scriptRunStart' = 0 /\ scriptRunEnd' = 0
  /\ script' = USCRIPT_INVALID_CODE
  /\ itemized' = <<>>
  /\ before' = <<>>
  /\ calls' = 0
  /\ UNCHANGED labelVars
  /\ UNCHANGED threadVars
  /\ UNCHANGED <<debug, metrics, paraLevel, levels>>

NextThread ==
  \/ Next
  \/ ItemizeTextAgain

SpecThread == InitThread /\ [][NextThread]_vars

\* ScriptInterval as a function of its arguments: a slice [start, start + length)
\* of a UTF-16 buffer, the empty slice included, in a debug and in a release
\* build. scriptRunStart holds start and bidiRunEnd holds start + length.
InitScan ==
  /\ utf8 \in SeqsUpTo(CodePoints, MaxLen)
  /\ NoLabelHandle
  /\ debug \in BOOLEAN
  /\ metrics = EmptyTextMetrics
  /\ text = ToUtf16(utf8)
  /\ paraLevel = -1
  /\ levels = <<>>
  /\ substrings = <<>>
  /\ pc = "scan"
  /\ bidiRunStart = 0 /\ bidiLevel = 0
  /\ scriptRunStart \in 0..Len(text)
  /\ bidiRunEnd \in scriptRunStart..Len(text)
  /\ scriptRunEnd = scriptRunStart
  /\ script = USCRIPT_INVALID_CODE
  /\ itemized = <<>>
  /\ before = <<>>
  /\ calls = 0
  /\ bidi = "uninitialized"
  /\ error = U_ZERO_ERROR
  /\ itemizations = 0

\* ASSERT_GREATER(length, 0U, ()) fires: only a debug build checks it.
ScriptIntervalAsserts ==
  /\ pc = "scan"
  /\ debug /\ ~(bidiRunEnd - scriptRunStart > 0)
  /\ pc' = "aborted"
  /\ UNCHANGED labelVars
  /\ UNCHANGED threadVars
  /\ UNCHANGED <<utf8, debug, metrics, text, paraLevel, levels, substrings,
                 bidiRunStart, bidiRunEnd, bidiLevel, scriptRunStart, scriptRunEnd,
                 script, itemized, before, calls>>

\* ScriptInterval(text, start, length, &script) runs to its return statement.
ScriptIntervalReturns ==
  /\ pc = "scan"
  /\ ~(debug /\ ~(bidiRunEnd - scriptRunStart > 0))
  /\ \E r \in {ScriptInterval(text, scriptRunStart, bidiRunEnd - scriptRunStart)} :
       /\ script' = r.script
       /\ scriptRunEnd' = r.length + scriptRunStart
  /\ pc' = "scanned"
  /\ UNCHANGED labelVars
  /\ UNCHANGED threadVars
  /\ UNCHANGED <<utf8, debug, metrics, text, paraLevel, levels, substrings,
                 bidiRunStart, bidiRunEnd, bidiLevel, scriptRunStart, itemized, before, calls>>

NextScan ==
  \/ ScriptIntervalAsserts
  \/ ScriptIntervalReturns

SpecScan == InitScan /\ [][NextScan]_vars

\* ================================================================ gui labels
\* drape_frontend/gui/gui_text.cpp: MutableLabelHandle and StaticLabelHandle.

textVars == <<utf8, debug, metrics, text, paraLevel, levels, substrings, pc,
              bidiRunStart, bidiRunEnd, bidiLevel, scriptRunStart, scriptRunEnd,
              script, itemized, before, calls, bidi, error, itemizations>>

\* The texture managers a handle can be given.
TextureManagers == {"tm1", "tm2"}

\* The contents a caller sets, as sequences of code points: the ASCII letters
\* N E O R T H, X (which has no glyph in the alphabet), and the horizontal
\* ellipsis U+2026.
LabelContents ==
  {<<>>, <<78>>, <<78, 69>>, <<78, 88>>, <<8230, 78, 69>>, <<78, 79, 82, 84, 72>>}

\* MutableLabel::m_maxLength, as set by Precache.
m_maxLength == 4

\* MutableLabel::m_alphabet, as set by Precache: the code points with a glyph
\* (N E O R T H, the full stop SetAlphabet adds, and U+2026).
m_alphabet == {78, 69, 79, 82, 84, 72, 46, 8230}

InAlphabet(c) == c \in m_alphabet

\* The bytes of a code point in UTF-8.
Utf8Bytes(c) ==
  IF c < 128 THEN <<c>>
  ELSE IF c < 2048 THEN <<192 + (c \div 64), 128 + (c % 64)>>
  ELSE IF c < 65536
    THEN <<224 + (c \div 4096), 128 + ((c \div 64) % 64), 128 + (c % 64)>>
  ELSE <<240 + (c \div 262144), 128 + ((c \div 4096) % 64),
         128 + ((c \div 64) % 64), 128 + (c % 64)>>

\* std::string of a content: its UTF-8 bytes.
RECURSIVE ToUtf8(_)
ToUtf8(content) ==
  IF content = <<>> THEN <<>> ELSE Utf8Bytes(Head(content)) \o ToUtf8(Tail(content))

\* strings::MakeUniString(utf8): the code points of a byte string, decoded
\* without validation. The lead byte alone decides how many bytes a sequence
\* has (a continuation byte in lead position is a sequence of its own), the
\* following bytes give their low six bits whatever they are, and a sequence
\* that runs over the end of the string reads zero bytes there.
RECURSIVE MakeUniString(_)
MakeUniString(bytes) ==
  IF bytes = <<>> THEN <<>>
  ELSE LET at(i) == IF i <= Len(bytes) THEN bytes[i] ELSE 0
           lead == bytes[1]
           length == IF lead < 128 THEN 1
                     ELSE IF lead \div 32 = 6 THEN 2
                     ELSE IF lead \div 16 = 14 THEN 3
                     ELSE IF lead \div 8 = 30 THEN 4
                     ELSE 1
           cp == IF length = 1 THEN lead
                 ELSE IF length = 2 THEN ((lead * 64) % 2048) + (at(2) % 64)
                 ELSE IF length = 3
                   THEN ((lead * 4096) % 65536) + ((at(2) * 64) % 4096) + (at(3) % 64)
                 ELSE ((lead * 262144) % 2097152) + ((at(2) * 4096) % 262144)
                      + ((at(3) * 64) % 4096) + (at(4) % 64)
       IN <<cp>> \o MakeUniString(SubSeq(bytes, length + 1, Len(bytes)))

\* bidi::log2vis(text): the code points of the text in visual order. None of
\* the code points the modelled texts decode to is right-to-left, and a text
\* without right-to-left characters is returned in its own order.
log2vis(bytes) == MakeUniString(bytes)

\* MutableLabel::SetText: the text, cut to m_maxLength - 3 bytes and an
\* ellipsis when it has more than m_maxLength bytes, gives four vertices for
\* every code point found in the alphabet; ASSERT(it != m_alphabet.end(), ())
\* fails on a code point that is not found.
SetText(content) ==
  LET text8 == ToUtf8(content)
      uniText == log2vis(IF Len(text8) <= m_maxLength
                         THEN text8
                         ELSE SubSeq(text8, 1, m_maxLength - 3) \o Utf8Bytes(8230))
      found == SelectSeq(uniText, InAlphabet)
  IN  [m_buffer |-> [i \in 1..(4 * Len(found)) |->
                       [glyph |-> found[((i - 1) \div 4) + 1], corner |-> (i - 1) % 4]],
       asserted |-> Len(found) /= Len(uniText)]

\* Variants of the handle's methods, used to probe the properties below:
\* a GetAttributeMutation that leaves the dirty flag set, and an Update that
\* asks the texture manager on every call.
GetAttributeMutation_KeepsDirty(dirty, content) ==
  IF ~dirty
  THEN [m_isContentDirty |-> dirty, added |-> <<>>, asserted |-> FALSE]
  ELSE [m_isContentDirty |-> dirty, added |-> <<[m_data |-> SetText(content).m_buffer]>>,
        asserted |-> SetText(content).asserted]

MutableLabelHandle_Update_AlwaysQueries(ready, answer) ==
  [m_glyphsReady |-> answer, queried |-> TRUE,
   result |-> IF ~answer THEN "false" ELSE "TBase::Update"]

\* MutableLabelHandle::SetContent (both overloads): the new values of the fields.
SetContent(dirty, stored, content) ==
  IF stored /= content
  THEN [m_isContentDirty |-> TRUE, m_content |-> content]
  ELSE [m_isContentDirty |-> dirty, m_content |-> stored]

\* MutableLabelHandle::GetAttributeMutation: the new dirty flag, the
\* mutations added to the mutator (none when the handle is not dirty), and
\* whether the assertion of SetText fails on the way.
GetAttributeMutation(dirty, content) ==
  IF ~dirty
  THEN [m_isContentDirty |-> dirty, added |-> <<>>, asserted |-> FALSE]
  ELSE [m_isContentDirty |-> FALSE, added |-> <<[m_data |-> SetText(content).m_buffer]>>,
        asserted |-> SetText(content).asserted]

\* dp::TextureManager::AreGlyphsReady of the given manager.
AreGlyphsReady(manager) == manager \in glyphsReadyIn

\* MutableLabelHandle::Update. answer is what AreGlyphsReady returns if called.
MutableLabelHandle_Update(ready, answer) ==
  LET nowReady == IF ~ready THEN answer ELSE ready
  IN  [m_glyphsReady |-> nowReady, queried |-> ~ready,
       result |-> IF ~nowReady THEN "false" ELSE "TBase::Update"]

\* StaticLabelHandle::Update.
StaticLabelHandle_Update(ready, answer) ==
  LET nowReady == IF ~ready THEN answer ELSE ready
  IN  [m_glyphsReady |-> nowReady, queried |-> ~ready,
       result |-> IF ~nowReady THEN "false" ELSE "TBase::Update"]

\* The history kept next to the handle: the fields before the last call, the
\* argument and the outcome of the last call, the number of mutations added
\* since the content changed last, whether AreGlyphsReady has ever returned
\* true, and whether the manager was replaced after that.
NoHistory ==
  [m_isContentDirty |-> FALSE, m_content |-> <<>>, m_glyphsReady |-> FALSE,
   argument |-> <<>>, added |-> FALSE, mutations |-> 0, queried |-> FALSE,
   reported |-> FALSE, result |-> "none", latched |-> FALSE, replaced |-> FALSE]

\* The program has not ended in a fault or a failed assertion.
HandleAlive == lastCall \notin {"crashed", "aborted"}

\* A handle just constructed, in a debug or a release build: MutableLabelHandle with or without a texture
\* manager, or StaticLabelHandle.
InitLabel ==
  /\ utf8 = <<>>
  /\ debug \in BOOLEAN
  /\ metrics = EmptyTextMetrics
  /\ text = <<>>
  /\ paraLevel = -1
  /\ levels = <<>>
  /\ substrings = <<>>
  /\ pc = "label"
  /\ bidiRunStart = 0 /\ bidiRunEnd = 0 /\ bidiLevel = 0
  /\ scriptRunStart = 0 /\ scriptRunEnd = 0
  /\ script = USCRIPT_INVALID_CODE
  /\ itemized = <<>>
  /\ before = <<>>
  /\ calls = 0
  /\ bidi = "uninitialized"
  /\ error = U_ZERO_ERROR
  /\ itemizations = 0
  /\ handle \in {"MutableLabelHandle", "StaticLabelHandle"}
  /\ m_isContentDirty = (handle = "MutableLabelHandle")
  /\ m_content = <<>>
  /\ m_glyphsReady = FALSE
  /\ m_textureManager \in IF handle = "MutableLabelHandle"
                          THEN {"nullptr"} \cup TextureManagers
                          ELSE TextureManagers
  /\ glyphsReadyIn \in SUBSET TextureManagers
  /\ mutation = <<>>
  /\ lastCall = "constructed"
  /\ labelHistory = NoHistory

\* SetContent(content) on a MutableLabelHandle.
SetContentCall ==
  /\ handle = "MutableLabelHandle" /\ HandleAlive
  /\ \E content \in LabelContents :
       \E r \in {SetContent(m_isContentDirty, m_content, content)} :
         /\ m_isContentDirty' = r.m_isContentDirty
         /\ m_content' = r.m_content
         /\ labelHistory' = [labelHistory EXCEPT
              !.m_isContentDirty = m_isContentDirty, !.m_content = m_content,
              !.m_glyphsReady = m_glyphsReady, !.argument = content,
              !.added = FALSE, !.queried = FALSE, !.reported = FALSE, !.result = "none",
              !.mutations = IF r.m_content /= m_content THEN 0 ELSE @]
  /\ lastCall' = "SetContent"
  /\ UNCHANGED <<handle, m_glyphsReady, m_textureManager, glyphsReadyIn, mutation>>
  /\ UNCHANGED textVars

\* GetAttributeMutation(mutator) on a MutableLabelHandle. In a debug build the
\* failing assertion of SetText ends the program after the flag was cleared
\* and before a mutation is added.
GetAttributeMutationCall ==
  /\ handle = "MutableLabelHandle" /\ HandleAlive
  /\ \E r \in {GetAttributeMutation(m_isContentDirty, m_content)} :
       \E added \in {IF debug /\ r.asserted THEN <<>> ELSE r.added} :
         /\ m_isContentDirty' = r.m_isContentDirty
         /\ mutation' = IF added = <<>> THEN mutation ELSE added
         /\ labelHistory' = [labelHistory EXCEPT
              !.m_isContentDirty = m_isContentDirty, !.m_content = m_content,
              !.m_glyphsReady = m_glyphsReady, !.argument = <<>>,
              !.added = (added /= <<>>), !.queried = FALSE, !.reported = FALSE,
              !.result = "none",
              !.mutations = IF added /= <<>> THEN @ + 1 ELSE @]
         /\ lastCall' = IF debug /\ r.asserted THEN "aborted" ELSE "GetAttributeMutation"
  /\ UNCHANGED <<handle, m_content, m_glyphsReady, m_textureManager, glyphsReadyIn>>
  /\ UNCHANGED textVars

\* Update(screen) on either handle. A handle built without a texture manager
\* calls AreGlyphsReady through a null pointer: any answer may come back.
UpdateCall ==
  /\ handle \in {"MutableLabelHandle", "StaticLabelHandle"} /\ HandleAlive
  /\ \E answer \in IF m_textureManager = "nullptr"
                   THEN BOOLEAN
                   ELSE {AreGlyphsReady(m_textureManager)} :
       \E r \in {IF handle = "MutableLabelHandle"
                 THEN MutableLabelHandle_Update(m_glyphsReady, answer)
                 ELSE StaticLabelHandle_Update(m_glyphsReady, answer)} :
         /\ m_glyphsReady' = r.m_glyphsReady
         /\ labelHistory' = [labelHistory EXCEPT
              !.m_isContentDirty = m_isContentDirty, !.m_content = m_content,
              !.m_glyphsReady = m_glyphsReady, !.argument = <<>>,
              !.added = FALSE, !.queried = r.queried,
              !.reported = r.queried /\ answer, !.result = r.result,
              !.latched = @ \/ (r.queried /\ answer)]
  /\ lastCall' = "Update"
  /\ UNCHANGED <<handle, m_isContentDirty, m_content, m_textureManager, glyphsReadyIn, mutation>>
  /\ UNCHANGED textVars

\* Update(screen) before the glyphs are ready on a handle built without a
\* texture manager: the call through the null pointer ends the program.
UpdateDereferencesNull ==
  /\ handle = "MutableLabelHandle" /\ HandleAlive
  /\ ~m_glyphsReady /\ m_textureManager = "nullptr"
  /\ lastCall' = "crashed"
  /\ UNCHANGED <<handle, m_isContentDirty, m_content, m_glyphsReady, m_textureManager,
                 glyphsReadyIn, mutation, labelHistory>>
  /\ UNCHANGED textVars

\* SetTextureManager(textures) on a MutableLabelHandle.
SetTextureManagerCall ==
  /\ handle = "MutableLabelHandle" /\ HandleAlive
  /\ \E textures \in TextureManagers :
       /\ m_textureManager' = textures
       /\ labelHistory' = [labelHistory EXCEPT
            !.m_isContentDirty = m_isContentDirty, !.m_content = m_content,
            !.m_glyphsReady = m_glyphsReady, !.argument = textures,
            !.added = FALSE, !.queried = FALSE, !.reported = FALSE, !.result = "none",
            !.replaced = @ \/ (labelHistory.latched /\ textures /= m_textureManager)]
  /\ lastCall' = "SetTextureManager"
  /\ UNCHANGED <<handle, m_isContentDirty, m_content, m_glyphsReady, glyphsReadyIn, mutation>>
  /\ UNCHANGED textVars

\* The environment: a texture manager finishes or loses its glyphs.
GlyphsReadinessChanges ==
  /\ handle /= "none" /\ HandleAlive
  /\ \E manager \in TextureManagers :
       glyphsReadyIn' = IF manager \in glyphsReadyIn
                        THEN glyphsReadyIn \ {manager}
                        ELSE glyphsReadyIn \cup {manager}
  /\ UNCHANGED <<handle, m_isContentDirty, m_content, m_glyphsReady, m_textureManager,
                 mutation, lastCall, labelHistory>>
  /\ UNCHANGED textVars

NextLabel ==
  \/ SetContentCall
  \/ GetAttributeMutationCall
  \/ UpdateCall
  \/ UpdateDereferencesNull
  \/ SetTextureManagerCall
  \/ GlyphsReadinessChanges

SpecLabel == InitLabel /\ [][NextLabel]_vars

\* ================================================================ claims
\* ---- helpers of the claims
Range(f) == {f[i] : i \in DOMAIN f}
Occurrences(s, x) == Cardinality({i \in DOMAIN s : s[i] = x})
IsPermutationOf(s, t) ==
  /\ Len(s) = Len(t)
  /\ \A x \in Range(s) \cup Range(t) : Occurrences(s, x) = Occurrences(t, x)
RunEnd(r) == r.m_start + r.m_length
AllDirection(runs, d) == \A i \in DOMAIN runs : runs[i].m_direction = d

\* The runs cover [0, n) exactly once, in increasing order.
CoversExactlyOnce(runs, n) ==
  /\ Len(runs) >= 1
  /\ runs[1].m_start = 0
  /\ \A i \in 1..(Len(runs) - 1) :
       /\ runs[i + 1].m_start = RunEnd(runs[i])
       /\ runs[i].m_start < runs[i + 1].m_start
  /\ \A i, j \in DOMAIN runs : i < j => RunEnd(runs[i]) <= runs[j].m_start
  /\ RunEnd(runs[Len(runs)]) = n

\* C1: the runs ItemizeText returns (before any reordering) cover
\* [0, textLength) of the UTF-16 buffer exactly once: first run at 0, each next
\* run starting where the previous one ends, strictly increasing starts, no
\* overlap, last run ending at textLength.
C1_ItemizedRunsCoverText ==
  (pc = "itemized" /\ calls = 0) => CoversExactlyOnce(substrings, Len(text))

\* C2: at every emission of a run, bidiRunStart <= scriptRunStart <=
\* scriptRunEnd <= bidiRunEnd, and the emitted script run does not cross a
\* bidi-level boundary (all of its units carry the level of the logical run).
C2_ScriptRunInsideBidiRun ==
  pc = "emitted" =>
    /\ bidiRunStart <= scriptRunStart
    /\ scriptRunStart <= scriptRunEnd
    /\ scriptRunEnd <= bidiRunEnd
    /\ bidiRunEnd <= Len(text)
    /\ \A k \in (scriptRunStart + 1)..scriptRunEnd : levels[k] = bidiLevel
    /\ substrings[Len(substrings)].m_start = scriptRunStart
    /\ RunEnd(substrings[Len(substrings)]) = scriptRunEnd

\* The second script run of a logical run that ends, at a level boundary,
\* before the end of the text.
C2_Witness ==
  /\ pc = "emitted"
  /\ bidiRunStart < scriptRunStart
  /\ scriptRunEnd = bidiRunEnd
  /\ bidiRunEnd < Len(text)
  /\ levels[bidiRunEnd + 1] /= bidiLevel

\* C3: every stored TextRun has start >= 0, length > 0 and
\* start + length <= length of the UTF-16 buffer, on the normal path and on
\* the bidi-failure path alike.
C3_RunsWithinBuffer ==
  \A i \in DOMAIN substrings :
    /\ substrings[i].m_start >= 0
    /\ substrings[i].m_length > 0
    /\ RunEnd(substrings[i]) <= Len(text)

\* C4: when ubidi_setPara fails, ItemizeText returns exactly one run spanning
\* [0, textLength), tagged unknown script and invalid direction.
C4_BidiFailureSpansParagraph ==
  (pc = "itemized" /\ calls = 0 /\ paraLevel = -1) =>
    substrings = <<TextRun(0, Len(text), HB_SCRIPT_UNKNOWN, HB_DIRECTION_INVALID)>>

\* ---- the result ReorderRTL is claimed to compute
\* The maximal span of consecutive positions satisfying In that contains i.
SpanFirst(n, i, In(_)) ==
  CHOOSE j \in 1..i : (\A k \in j..i : In(k)) /\ (j = 1 \/ ~In(j - 1))
SpanLast(n, i, In(_)) ==
  CHOOSE j \in i..n : (\A k \in i..j : In(k)) /\ (j = n \/ ~In(j + 1))

\* Every maximal span of positions satisfying In reversed in place.
ReverseMaximalSpans(s, In(_)) ==
  [i \in 1..Len(s) |->
     IF In(i) THEN s[SpanFirst(Len(s), i, In) + SpanLast(Len(s), i, In) - i] ELSE s[i]]

ClaimedReorder(runs) ==
  LET d == runs[1].m_direction
      Differs(i) == runs[i].m_direction /= d
      spans == ReverseMaximalSpans(runs, Differs)
  IN IF d = HB_DIRECTION_RTL THEN Reverse(spans) ELSE spans

\* C5: with d the direction of the first run, ReorderRTL reverses in place every
\* maximal contiguous span of runs whose direction differs from d, keeps the
\* runs of direction d where they are, and then reverses the whole sequence
\* if and only if d is right-to-left; the result depends on nothing else.
C5_ReorderComputesClaimedOrder ==
  pc = "reordered" => substrings = ClaimedReorder(before)

\* A right-to-left first run followed by a span of two left-to-right runs and
\* another right-to-left run.
C5_Witness ==
  /\ pc = "reordered"
  /\ calls = 1
  /\ Len(before) = 4
  /\ before[1].m_direction = HB_DIRECTION_RTL
  /\ before[2].m_direction = HB_DIRECTION_LTR
  /\ before[3].m_direction = HB_DIRECTION_LTR
  /\ before[4].m_direction = HB_DIRECTION_RTL
  /\ substrings = <<before[4], before[2], before[3], before[1]>>

\* C6: on a sequence whose runs all have one direction ReorderRTL returns the
\* identical sequence (LTR) or the exact reverse (RTL), never another
\* permutation, and applying it twice gives back the original.
C6_UniformDirectionReorder ==
  \A d \in {HB_DIRECTION_LTR, HB_DIRECTION_RTL} :
    (pc = "reordered" /\ AllDirection(itemized, d)) =>
      /\ calls % 2 = 1 =>
           substrings = IF d = HB_DIRECTION_RTL THEN Reverse(itemized) ELSE itemized
      /\ calls % 2 = 0 => substrings = itemized

\* An all-RTL sequence of three runs or more after its second reordering.
C6_Witness ==
  /\ pc = "reordered"
  /\ calls = 2
  /\ Len(itemized) >= 3
  /\ AllDirection(itemized, HB_DIRECTION_RTL)
  /\ before = Reverse(itemized)
  /\ substrings = itemized

\* C7: ReorderRTL only permutes the runs: their number is unchanged, the output
\* is a permutation of the input runs (each with its own start, length, script
\* and direction), and the UTF-16 buffer is left as ItemizeText made it.
C7_ReorderOnlyPermutes ==
  pc = "reordered" =>
    /\ Len(substrings) = Len(before)
    /\ IsPermutationOf(substrings, before)
    /\ \A r \in Range(before) : \E i \in DOMAIN substrings :
         /\ substrings[i] = r
         /\ \A j \in DOMAIN substrings : substrings[j].m_start = r.m_start => j = i
    /\ text = ToUtf16(utf8)

\* Three runs of the pipeline that ReorderRTL has put in another order.
C7_Witness ==
  /\ pc = "reordered"
  /\ Len(before) = 3
  /\ substrings /= before
  /\ substrings[1] = before[1]

\* ---- the Unicode bidi reordering rule L2, on runs
RunLevel(r) == levels[r.m_start + 1]
MaxOf(S) == CHOOSE x \in S : \A y \in S : y <= x
MinOf(S) == CHOOSE x \in S : \A y \in S : x <= y

\* From level k down to level lowest: reverse every maximal span of runs whose
\* level is at least the level.
RECURSIVE ReverseFromLevel(_, _, _)
ReverseFromLevel(runs, k, lowest) ==
  IF k < lowest THEN runs
  ELSE LET AtLeast(i) == RunLevel(runs[i]) >= k
       IN ReverseFromLevel(ReverseMaximalSpans(runs, AtLeast), k - 1, lowest)

StandardVisualOrder(runs) ==
  LET lv == {RunLevel(runs[i]) : i \in DOMAIN runs}
      odd == {l \in lv : l % 2 = 1}
  IN IF odd = {} THEN runs ELSE ReverseFromLevel(runs, MaxOf(lv), MinOf(odd))

\* The runs nest at most one level above the paragraph level and the first
\* run has the paragraph's direction.
OneLevelNesting(runs) ==
  /\ paraLevel >= 0
  /\ \A i \in DOMAIN runs : RunLevel(runs[i]) \in {paraLevel, paraLevel + 1}
  /\ RunLevel(runs[1]) % 2 = paraLevel % 2

\* C8: for runs nesting at most one level above the paragraph level, the first
\* of which has the paragraph's base direction, ReorderRTL produces the visual
\* order of the Unicode bidi rule L2.
C8_ReorderMatchesBidiRule ==
  (pc = "reordered" /\ calls = 1 /\ OneLevelNesting(before)) =>
    substrings = StandardVisualOrder(before)

\* A right-to-left paragraph with an embedded left-to-right span of two runs.
C8_Witness ==
  /\ pc = "reordered"
  /\ calls = 1
  /\ paraLevel = 1
  /\ levels = <<1, 2, 2, 1>>
  /\ OneLevelNesting(before)
  /\ substrings = <<before[4], before[2], before[3], before[1]>>

\* ---- the script interval scanner, in terms of the code points of the text
\* The script extension set of a code point as GetScriptExtensions reports it
\* (empty when the lookup fails, which kMaxScripts entries rule out for every
\* code point of the model).
ExtensionSet(cp) ==
  LET r == uscript_getScriptExtensions(cp, kMaxScripts)
  IN IF r.failure THEN {} ELSE Range(r.written)
IsInheritedOnly(cp) == ExtensionSet(cp) = {USCRIPT_INHERITED}
KnownScripts == UNION {ExtensionSet(cp) : cp \in CodePoints} \cup {USCRIPT_UNKNOWN}

\* UTF-16 offset behind the first k code points of the text, and the index of
\* the code point that starts at a UTF-16 offset.
OffsetBehind(k) == Len(ToUtf16(SubSeq(utf8, 1, k)))
CodePointAt(offset) == CHOOSE i \in 1..(Len(utf8) + 1) : OffsetBehind(i - 1) = offset

\* The scan ScriptInterval has just made at an emission: code points
\* ScanFirst..ScanLast of the text.
ScanFirst == CodePointAt(scriptRunStart)
ScanLast == CodePointAt(bidiRunEnd) - 1
ScanSteps == ScriptIntervalSteps(text, scriptRunStart, bidiRunEnd - scriptRunStart)

\* C9: in ScriptInterval a code point whose extension set is exactly
\* {Inherited}, at any position after the first of the slice, never changes the
\* active script set and never ends the current script interval: no run ends
\* immediately before it.
C9_InheritedNeverEndsInterval ==
  pc = "emitted" =>
    /\ \A k \in DOMAIN ScanSteps :
         IsInheritedOnly(ScanSteps[k].char_) =>
           /\ ScanSteps[k].resultSize = ScanSteps[k].scriptsSize
           /\ ScanSteps[k].result = ScanSteps[k].scripts
           /\ ~(ScanSteps[k].resultSize = 0 /\ ScanSteps[k].array_pos_ < bidiRunEnd - scriptRunStart)
    /\ scriptRunEnd < bidiRunEnd => ~IsInheritedOnly(utf8[CodePointAt(scriptRunEnd)])

\* C9 witness: a combining acute accent between two Latin letters on one
\* level; the scan passes over it and the run has all three code points.
C9_Witness ==
  /\ pc = "emitted"
  /\ utf8 = <<65, 769, 65>>
  /\ scriptRunStart = 0
  /\ bidiRunEnd = 3
  /\ scriptRunEnd = 3
  /\ script = USCRIPT_LATIN

\* Scripts shared by code points first..k, those that are exactly {Inherited}
\* being ignored.
CommonIgnoringInherited(first, k) ==
  {s \in KnownScripts : \A j \in first..k :
     IsInheritedOnly(utf8[j]) \/ s \in ExtensionSet(utf8[j])}

\* Length of the longest prefix of the scanned slice whose code points,
\* ignoring the Inherited-only ones, share a script.
LongestCommonPrefix ==
  LET good == {k \in ScanFirst..ScanLast : CommonIgnoringInherited(ScanFirst, k) /= {}}
  IN IF good = {} THEN 0 ELSE OffsetBehind(MaxOf(good)) - scriptRunStart

\* C10 as stated:
\* ScriptInterval returns the length of the longest prefix of the slice whose
\* code points, ignoring those that are exactly {Inherited}, share at least one
\* common script.
C10_LongestPrefixIgnoringInherited ==
  pc = "emitted" =>
    scriptRunEnd - scriptRunStart = LongestCommonPrefix

\* The active set at code point k of the scan: the first code point's extension
\* set, whatever it is, intersected with the sets of the code points after it
\* that are not exactly {Inherited}.
ActiveSetAt(first, k) ==
  {s \in ExtensionSet(utf8[first]) : \A j \in (first + 1)..k :
     IsInheritedOnly(utf8[j]) \/ s \in ExtensionSet(utf8[j])}

IntervalLength ==
  LET ends == {k \in (ScanFirst + 1)..ScanLast : ActiveSetAt(ScanFirst, k) = {}}
  IN IF ends = {} THEN bidiRunEnd - scriptRunStart
     ELSE OffsetBehind(MinOf(ends) - 1) - scriptRunStart

\* C10 (amended): ScriptInterval always takes the first code point of the slice
\* and seeds the active set with its extension set, also when that is exactly
\* {Inherited}; a following code point that
\* is exactly {Inherited} is skipped, any other is intersected into the active
\* set; the run ends immediately before the first following code point at which
\* the active set is empty, and is the full requested length if there is none.
C10_IntervalEndsAtEmptyActiveSet ==
  pc = "emitted" =>
    /\ scriptRunEnd - scriptRunStart = IntervalLength
    /\ ScriptInterval(text, scriptRunStart, bidiRunEnd - scriptRunStart).length = IntervalLength

\* {Hira, Kana}, then an Inherited code point that is skipped, then a Latin
\* code point that empties the active set: the run ends before the Latin one.
C10_Witness ==
  /\ pc = "emitted"
  /\ utf8 = <<12540, 769, 65>>
  /\ scriptRunStart = 0
  /\ bidiRunEnd = 3
  /\ scriptRunEnd = 2

\* The extension list of the first scanned code point as the resolver writes
\* it (empty when its lookup fails), and the code points of the returned run.
SeedList ==
  LET r == uscript_getScriptExtensions(utf8[ScanFirst], kMaxScripts)
  IN IF r.failure THEN <<>> ELSE r.written
RunLast == CodePointAt(scriptRunEnd) - 1
InActiveSetOfRun(s) == s \in ActiveSetAt(ScanFirst, RunLast)
ActiveListOfRun == SelectSeq(SeedList, InActiveSetOfRun)

\* C11: the script ScriptInterval writes, and the itemizer tags the run with,
\* is the first element, in the order of the first code point's extension
\* list, of the active script set left by exactly the code points of the
\* returned run; when a code point with an empty intersection ends the run, the
\* script is the one the array held in front before that intersection.
C11_ScriptIsFirstOfActiveSet ==
  (pc = "emitted" /\ ActiveListOfRun /= <<>>) =>
    /\ script = ActiveListOfRun[1]
    /\ ScriptInterval(text, scriptRunStart, bidiRunEnd - scriptRunStart).script
         = ActiveListOfRun[1]
    /\ substrings[Len(substrings)].m_script = ICUScriptToHarfbuzzScript(ActiveListOfRun[1])
    /\ scriptRunEnd < bidiRunEnd =>
         LET last == ScanSteps[Len(ScanSteps)] IN
           /\ last.resultSize = 0
           /\ last.scripts[1] = script
           /\ last.result = last.scripts

\* {Hira, Kana} narrowed to {Kana} by a Katakana letter, then a Latin letter
\* that empties the intersection: the run of two is tagged Katakana.
C11_Witness ==
  /\ pc = "emitted"
  /\ utf8 = <<12540, 12450, 65>>
  /\ scriptRunStart = 0
  /\ bidiRunEnd = 3
  /\ scriptRunEnd = 2
  /\ script = USCRIPT_KATAKANA

\* The bidi logical run around a UTF-16 offset: the offsets from which
\* ubidi_getLogicalRun reports the same limit.
SameLogicalRun(a, b) ==
  ubidi_getLogicalRun(levels, a).logicalLimit = ubidi_getLogicalRun(levels, b).logicalLimit

\* C13: on the normal path (ubidi_setPara succeeded) every emitted run has
\* direction RTL if the embedding level of the logical run it was carved from
\* is odd and LTR if it is even, and the script runs carved from one logical
\* run all have the same direction.
C13_DirectionByLevelParity ==
  (paraLevel /= -1 /\ calls = 0) =>
    /\ \A i \in DOMAIN substrings :
         LET level == ubidi_getLogicalRun(levels, substrings[i].m_start).level IN
           /\ level % 2 = 1 => substrings[i].m_direction = HB_DIRECTION_RTL
           /\ level % 2 = 0 => substrings[i].m_direction = HB_DIRECTION_LTR
    /\ \A i, j \in DOMAIN substrings :
         SameLogicalRun(substrings[i].m_start, substrings[j].m_start) =>
           substrings[i].m_direction = substrings[j].m_direction

\* A paragraph of level 1 with a logical run of level 2 cut into two script
\* runs, both LTR, after a run of level 1, RTL.
C13_Witness ==
  /\ pc = "itemized"
  /\ paraLevel = 1
  /\ levels = <<1, 2, 2>>
  /\ Len(substrings) = 3
  /\ substrings[1].m_direction = HB_DIRECTION_RTL
  /\ substrings[2].m_direction = HB_DIRECTION_LTR
  /\ substrings[3].m_direction = HB_DIRECTION_LTR

\* Scripts that are in the extension set of every code point of the text.
CommonScripts ==
  {s \in KnownScripts : \A j \in DOMAIN utf8 : s \in ExtensionSet(utf8[j])}
UniformLevel == \A i, j \in DOMAIN levels : levels[i] = levels[j]

\* C14: a text whose code points all lie on one embedding level and all have
\* a script in common is itemized into exactly one run: start 0, length
\* textLength, one of the common scripts, direction RTL for an odd level and
\* LTR for an even one; ReorderRTL leaves that TextRuns unchanged.
C14_SingleRunForUniformText ==
  (pc \in {"itemized", "reordered"} /\ paraLevel /= -1 /\ UniformLevel
     /\ CommonScripts /= {}) =>
    /\ \E s \in CommonScripts :
         itemized = <<TextRun(0, Len(text), ICUScriptToHarfbuzzScript(s),
                              IF levels[1] % 2 = 1 THEN HB_DIRECTION_RTL
                              ELSE HB_DIRECTION_LTR)>>
    /\ ReorderRTL(itemized) = itemized
    /\ pc = "reordered" => substrings = itemized

\* Two Arabic letters on level 1: one RTL run, which ReorderRTL, reversing
\* the whole sequence for the RTL line, leaves as it is.
C14_Witness ==
  /\ pc = "reordered"
  /\ utf8 = <<1575, 1575>>
  /\ levels = <<1, 1>>
  /\ before = <<TextRun(0, 2, "Arab", HB_DIRECTION_RTL)>>
  /\ substrings = before

IsRTLBefore(i) == before[i].m_direction = HB_DIRECTION_RTL
DirectionsOf(runs) == [i \in DOMAIN runs |-> runs[i].m_direction]

\* C15: when the first run is LTR, ReorderRTL keeps the number of runs and the
\* direction tag at every index, leaves every LTR run at its index, and puts
\* the runs of each maximal RTL span into the same index range in reversed
\* order; in particular three runs LTR, RTL, LTR come out in the order first,
\* middle, last, not reversed as a whole.
C15_LTRLineKeepsLTRRunsInPlace ==
  (pc = "reordered" /\ before[1].m_direction = HB_DIRECTION_LTR) =>
    /\ Len(substrings) = Len(before)
    /\ DirectionsOf(substrings) = DirectionsOf(before)
    /\ \A i \in DOMAIN before :
         IF before[i].m_direction = HB_DIRECTION_LTR
           THEN substrings[i] = before[i]
           ELSE substrings[i] =
                  before[SpanFirst(Len(before), i, IsRTLBefore)
                         + SpanLast(Len(before), i, IsRTLBefore) - i]
    /\ DirectionsOf(before) = <<HB_DIRECTION_LTR, HB_DIRECTION_RTL, HB_DIRECTION_LTR>> =>
         substrings = before

\* Latin, Arabic, Latin in a left-to-right paragraph: three runs, reordered
\* into the same three runs.
C15_Witness ==
  /\ pc = "reordered"
  /\ calls = 1
  /\ paraLevel = 0
  /\ DirectionsOf(before) = <<HB_DIRECTION_LTR, HB_DIRECTION_RTL, HB_DIRECTION_LTR>>
  /\ substrings = before
  /\ substrings[1].m_start = 0 /\ substrings[2].m_start = 1 /\ substrings[3].m_start = 2

\* C16: a call of ScriptInterval with length 0 is rejected as a precondition
\* failure: it never returns normally with a run length of 0 and it never
\* writes a script for an empty slice.
C16_EmptySliceRejected ==
  bidiRunEnd - scriptRunStart = 0 =>
    /\ pc /= "scanned"
    /\ script = USCRIPT_INVALID_CODE

\* C17: ItemizeText called with an empty text, or with a text containing a
\* carriage return or a line feed, fails fast and produces no TextRuns: the
\* text is never converted, analysed or itemized.
C17_InvalidInputFailsFast ==
  ~ValidInput(utf8) =>
    /\ pc \in {"shape", "start", "aborted"}
    /\ text = <<>>
    /\ substrings = <<>>
    /\ itemized = <<>>

\* The TextRuns the loops of GetSingleTextLineRuns fill for the buffer txt from
\* the unit offset start on, when the analyzer holds the unit levels lv.
RECURSIVE RunsOfLevels(_, _, _)
RunsOfLevels(txt, lv, start) ==
  IF start >= Len(txt) THEN <<>>
  ELSE LET b == ubidi_getLogicalRun(lv, start)
           r == ScriptInterval(txt, start, b.logicalLimit - start)
       IN <<TextRun(start, r.length, ICUScriptToHarfbuzzScript(r.script),
                    DirectionOfLevel(b.level))>>
          \o RunsOfLevels(txt, lv, start + r.length)

\* The unit levels an analyzer created for this call can resolve for a text.
FreshLevels(cps) ==
  {UnitLevels(cps, lv) : lv \in UNION {LevelsIn(cps, pl) : pl \in ParagraphLevels(cps)}}

\* The TextRuns an analyzer created for this call can give for the text of the
\* call: the runs of the levels it resolves, or, when in this call the memory
\* for the analysis cannot be had, the run of the failure branch.
FreshAnalyzerRuns ==
  IF error = U_MEMORY_ALLOCATION_ERROR
    THEN {<<TextRun(0, 0, HB_SCRIPT_UNKNOWN, HB_DIRECTION_INVALID)>>}
    ELSE {RunsOfLevels(ToUtf16(utf8), lv, 0) : lv \in FreshLevels(utf8)}

\* C18: the reused thread-local bidi analyzer carries no state from one
\* itemization to the next. When a second or later ItemizeText call on a
\* thread has returned, whatever the earlier calls were and however they
\* ended, its TextRuns are TextRuns a freshly created analyzer gives for the
\* same text; and when the analysis succeeded they are the runs of levels
\* resolved for this text alone.
C18_ReusedAnalyzerCarriesNoState ==
  (itemizations >= 2 /\ pc = "itemized") =>
    /\ itemized \in FreshAnalyzerRuns
    /\ error = U_ZERO_ERROR =>
         /\ levels \in FreshLevels(utf8)
         /\ itemized = RunsOfLevels(text, levels, 0)

\* The least number of glyphs the runs of a sequence give together, and the
\* sum of the x-advances of a glyph list.
RECURSIVE MinGlyphsOfRuns(_)
MinGlyphsOfRuns(runs) ==
  IF runs = <<>> THEN 0 ELSE MinGlyphCount(text, Head(runs)) + MinGlyphsOfRuns(Tail(runs))
RECURSIVE SumOfAdvances(_)
SumOfAdvances(glyphs) ==
  IF glyphs = <<>> THEN 0 ELSE Head(glyphs).m_xAdvance + SumOfAdvances(Tail(glyphs))

\* C19: the TextMetrics returned by ShapeText(text, fontPixelHeight, lang) has
\* as glyph list the concatenation, in visual run order (the runs of
\* ItemizeText reordered by ReorderRTL), of the glyph streams of the runs of
\* the text, and as width the sum of the run widths, each the sum of the
\* x-advances of the glyphs of the run. Stated by what this means for every
\* font: the glyph list has at least one glyph for every run that holds code
\* points, and the width is the sum of the x-advances of the glyph list.
C19_MetricsConcatenateRunGlyphs ==
  (pc = "reordered" /\ calls = 1) =>
    /\ Len(metrics.m_glyphs) >= MinGlyphsOfRuns(substrings)
    /\ metrics.m_width = SumOfAdvances(metrics.m_glyphs)

\* C20: itemization makes progress in every iteration. Every call of
\* ScriptInterval with length >= 1 returns a value between 1 and length, so at
\* an emission scriptRunStart < scriptRunEnd <= bidiRunEnd and the next
\* assignment strictly increases scriptRunStart; every logical run is
\* non-empty, so the outer loop strictly increases bidiRunStart; and the number
\* of emitted runs is at most textLength.
C20_ItemizationProgress ==
  /\ pc = "inner" =>
       /\ bidiRunStart < bidiRunEnd /\ bidiRunEnd <= Len(text)
       /\ bidiRunStart <= scriptRunStart /\ scriptRunStart < bidiRunEnd
  /\ pc = "emitted" =>
       /\ 1 <= scriptRunEnd - scriptRunStart
       /\ scriptRunEnd <= bidiRunEnd
       /\ substrings[Len(substrings)].m_length >= 1
  /\ pc = "itemized" =>
       \A start \in 0..(Len(text) - 1) : \A length \in 1..(Len(text) - start) :
         ScriptInterval(text, start, length).length \in 1..length
  /\ paraLevel /= -1 => Len(substrings) <= Len(text)

\* Three code points of three scripts: three runs, as many as the text has
\* UTF-16 units, and the last call of ScriptInterval returned 1.
C20_Witness ==
  /\ pc = "itemized"
  /\ utf8 = <<65, 1575, 12450>>
  /\ paraLevel /= -1
  /\ Len(substrings) = Len(text)
  /\ \A i \in DOMAIN substrings : substrings[i].m_length = 1

\* The iterator over the scanned slice after n calls of Advance().
ScannedSlice == SubSeq(text, scriptRunStart + 1, bidiRunEnd)
RECURSIVE AdvancedTimes(_, _)
AdvancedTimes(it, n) == IF n = 0 THEN it ELSE AdvancedTimes(Advance(it)[2], n - 1)

\* C21: whenever Advance() returns true the iterator is positioned on a real
\* character of the string: end() is false and get() is the code point that
\* starts at array_pos().
C21_AdvanceTrueMeansOnCharacter ==
  pc = "scanned" =>
    \A n \in 0..Len(ScannedSlice) :
      LET a == Advance(AdvancedTimes(UTF16CharIterator(ScannedSlice), n)) IN
        a[1] =>
          /\ ~end(a[2])
          /\ get(a[2]) = U16_NEXT(ScannedSlice, array_pos(a[2]), Len(ScannedSlice)).c

\* The code points of a UTF-16 string with the offsets they start at, decoded
\* front to back.
RECURSIVE DecodeFrom(_, _)
DecodeFrom(str, i) ==
  IF i >= Len(str) THEN <<>>
  ELSE LET r == U16_NEXT(str, i, Len(str))
       IN <<[c |-> r.c, pos |-> i]>> \o DecodeFrom(str, r.i)

\* The reference scanner on decoded code points: code point k is intersected
\* into the active set exactly once; the scan ends at the first code point
\* that leaves the set empty.
RECURSIVE ReferenceScan(_, _, _, _, _)
ReferenceScan(cps, k, scripts, scriptsSize, length) ==
  IF k > Len(cps) THEN [length |-> length, script |-> scripts[1]]
  ELSE LET r == ScriptSetIntersect(cps[k].c, scripts, scriptsSize)
       IN IF r.resultSize = 0 THEN [length |-> cps[k].pos, script |-> r.result[1]]
          ELSE ReferenceScan(cps, k + 1, r.result, r.resultSize, length)

ReferenceScriptInterval(str) ==
  LET cps == DecodeFrom(str, 0)
      g == GetScriptExtensions(cps[1].c, InitialScripts)
  IN ReferenceScan(cps, 2, g.scripts, g.count, Len(str))

\* C22: on a non-empty slice ScriptInterval returns the length and the script
\* of the reference scanner, which seeds with the first code point and
\* intersects every following code point exactly once; the iteration made when
\* the iterator steps onto the end of the slice, with the value of the last
\* code point, leaves the active set as it was.
C22_LoopEqualsReferenceScanner ==
  (pc = "scanned" /\ Len(ScannedSlice) >= 1) =>
    /\ scriptRunEnd - scriptRunStart = ReferenceScriptInterval(ScannedSlice).length
    /\ script = ReferenceScriptInterval(ScannedSlice).script
    /\ \A k \in DOMAIN ScanSteps :
         ScanSteps[k].array_pos_ = Len(ScannedSlice) =>
           /\ ScanSteps[k].resultSize = ScanSteps[k].scriptsSize
           /\ ScanSteps[k].result = ScanSteps[k].scripts

\* A slice of two code points that share Katakana: the loop makes an iteration
\* for the second code point and one more on the end of the slice, and the
\* whole slice is returned as Katakana.
C22_Witness ==
  /\ pc = "scanned"
  /\ utf8 = <<12540, 12450>>
  /\ scriptRunStart = 0
  /\ bidiRunEnd = 2
  /\ Len(ScanSteps) = 2
  /\ ScanSteps[2].array_pos_ = 2
  /\ scriptRunEnd = 2
  /\ script = USCRIPT_KATAKANA

\* C23: when the first code point of the scanned slice is exactly {Inherited},
\* the run consists of that code point and the Inherited-only code points that
\* directly follow it in the slice, it ends before the first code point with
\* another extension set, and its script is Inherited.
C23_LeadingInheritedFormsOwnRun ==
  (pc = "emitted" /\ IsInheritedOnly(utf8[ScanFirst])) =>
    /\ script = USCRIPT_INHERITED
    /\ substrings[Len(substrings)].m_script = "Zinh"
    /\ \A j \in ScanFirst..RunLast : IsInheritedOnly(utf8[j])
    /\ scriptRunEnd < bidiRunEnd => ~IsInheritedOnly(utf8[RunLast + 1])

\* Two combining marks before a Latin letter on one level: the marks are
\* emitted as a run of their own, tagged Inherited.
C23_Witness ==
  /\ pc = "emitted"
  /\ utf8 = <<769, 769, 65>>
  /\ scriptRunStart = 0
  /\ bidiRunEnd = 3
  /\ scriptRunEnd = 2
  /\ script = USCRIPT_INHERITED
  /\ substrings = <<TextRun(0, 2, "Zinh", DirectionOfLevel(bidiLevel))>>

\* C24: whenever the first run is LTR, ReorderRTL applied twice returns the
\* original run sequence, whatever the directions of the runs after the first.
C24_ReorderTwiceIsIdentity ==
  /\ (pc \in {"itemized", "reordered"} /\ substrings /= <<>>
        /\ substrings[1].m_direction = HB_DIRECTION_LTR) =>
       ReorderRTL(ReorderRTL(substrings)) = substrings
  /\ (pc = "reordered" /\ calls = 2 /\ itemized[1].m_direction = HB_DIRECTION_LTR) =>
       substrings = itemized

\* A left-to-right first run followed by three right-to-left runs: the first
\* call reversed the span of three, the second call restored the original.
C24_Witness ==
  /\ pc = "reordered"
  /\ calls = 2
  /\ DirectionsOf(itemized)
       = <<HB_DIRECTION_LTR, HB_DIRECTION_RTL, HB_DIRECTION_RTL, HB_DIRECTION_RTL>>
  /\ before /= itemized
  /\ substrings = itemized

\* C25: ItemizeText returns at least one run for every input it accepts, on
\* the normal path and on the bidi-failure path alike, so ReorderRTL, which
\* reads the direction of the first run unguarded, is never called on an empty
\* run sequence by the pipeline ItemizeText, ReorderRTL.
C25_PipelineNeverReordersEmptyRuns ==
  /\ pc = "itemized" => Len(substrings) >= 1
  /\ calls >= 1 => before /= <<>>
  /\ ~(calls >= 1 /\ pc = "crashed")


\* ---- helpers of the label claims
\* The mutation GetAttributeMutation builds from a content.
MutationFrom(content) == <<[m_data |-> SetText(content).m_buffer]>>

\* C26: a MutableLabelHandle starts dirty; SetContent marks the handle dirty
\* and replaces the content only when the new content differs from the stored
\* one; GetAttributeMutation adds a mutation only when the handle is dirty and
\* clears the dirty flag, so at most one mutation is added between two changes
\* of the content, every mutation is built from the content at the time it is
\* added, and a handle that is not dirty has its last mutation built from the
\* current content (as long as no assertion has ended the program).
C26_DirtyFlagGuardsMutations ==
  handle = "MutableLabelHandle" =>
    LET h == labelHistory IN
    /\ lastCall = "constructed" => m_isContentDirty
    /\ lastCall = "SetContent" =>
         IF h.argument /= h.m_content
         THEN m_isContentDirty /\ m_content = h.argument
         ELSE m_isContentDirty = h.m_isContentDirty /\ m_content = h.m_content
    /\ lastCall = "GetAttributeMutation" =>
         /\ ~m_isContentDirty
         /\ h.added <=> h.m_isContentDirty
         /\ h.added => mutation = MutationFrom(m_content)
    /\ h.mutations <= 1
    /\ (HandleAlive /\ ~m_isContentDirty) => mutation = MutationFrom(m_content)

\* C26 witness: after a change of the content to a text longer than
\* m_maxLength, one GetAttributeMutation has added its mutation and a second
\* one has added none.
C26_Witness ==
  /\ handle = "MutableLabelHandle"
  /\ lastCall = "GetAttributeMutation"
  /\ ~labelHistory.added
  /\ labelHistory.mutations = 1
  /\ m_content = <<78, 79, 82, 84, 72>>
  /\ mutation = MutationFrom(<<78, 8230>>)


\* C27: Update of a MutableLabelHandle or a StaticLabelHandle returns false
\* without running the base update whenever the texture manager reports the
\* glyphs not ready; the base update runs only with the flag set; once
\* AreGlyphsReady has returned true, no Update queries it again and
\* m_glyphsReady stays true over every later call, SetTextureManager included.
C27_GlyphsReadyIsLatched ==
  handle \in {"MutableLabelHandle", "StaticLabelHandle"} =>
    LET h == labelHistory IN
    /\ (lastCall = "Update" /\ h.queried /\ ~h.reported) =>
         (h.result = "false" /\ ~m_glyphsReady)
    /\ (lastCall = "Update" /\ h.result = "TBase::Update") => m_glyphsReady
    /\ (lastCall = "Update" /\ h.m_glyphsReady) => ~h.queried
    /\ h.m_glyphsReady => m_glyphsReady
    /\ h.latched => m_glyphsReady

\* C27 witness: after AreGlyphsReady returned true the texture manager was
\* replaced by one whose glyphs are not ready, and an Update ran the base
\* update without asking it.
C27_Witness ==
  /\ handle = "MutableLabelHandle"
  /\ lastCall = "Update"
  /\ labelHistory.latched /\ labelHistory.replaced
  /\ labelHistory.m_glyphsReady /\ ~labelHistory.queried
  /\ labelHistory.result = "TBase::Update"
  /\ m_textureManager \notin glyphsReadyIn

====
